---- MODULE Spec2Model ----
(***************************************************************************)
(* A model of src/index.js: the TransactionAnalyzer class, a store holding *)
(* an array of transaction records with one mutator (addTransaction) and   *)
(* a set of full-scan queries.                                             *)
(*                                                                         *)
(* JavaScript values are modelled as follows.                              *)
(*   - transaction_id is a JS value with a type tag ("string" or           *)
(*     "number") and its printed form, so that === can tell "1" from 1.    *)
(*   - transaction_date is a date-only ISO string "YYYY-MM-DD", held as    *)
(*     the record [y, m, d] of its three fields.  new Date(s) parses such  *)
(*     a string as UTC midnight; getFullYear/getMonth/getDate read the     *)
(*     LOCAL calendar, which depends on the host's UTC offset (tz).  Time  *)
(*     values are kept in hours instead of milliseconds.                   *)
(*   - transaction_amount is a number or a string of characters;           *)
(*     parseFloat converts it.  Amounts are whole numbers of small size,   *)
(*     on which IEEE double addition is exact.                             *)
(***************************************************************************)
EXTENDS Integers, Sequences, FiniteSets, TLC

VARIABLES
    transactions,   \* this.transactions: the stored array
    tz,             \* the host's UTC offset in hours (environment, fixed)
    initial,        \* history: the array the constructor was given
    appended,       \* history: the arguments of addTransaction so far, in order
    op,             \* the method called last
    args,           \* its arguments
    result          \* the value it returned

vars == <<transactions, tz, initial, appended, op, args, result>>

\* ---------------------------------------------------------------- bounds

MaxLen == 2
MaxInitLen == 1

\* ------------------------------------------------------------- JS values

Undefined == [type |-> "undefined", repr |-> "undefined"]
JSString(s) == [type |-> "string", repr |-> s]
JSNumber(s) == [type |-> "number", repr |-> s]

\* The == operator on these values: "1" == 1.
LooseEquals(a, b) == a.repr = b.repr
\* The === operator on primitive values: same type and same value.
StrictEquals(a, b) == a.type = b.type /\ a.repr = b.repr

\* A missing argument or a falsy one: !x is true for undefined and for 0.
Omitted == <<>>
Given(x) == <<x>>
Not(x) == x = Omitted \/ x[1] = 0

\* An amount as held in the JSON: a number, or a string of characters.
NumAmount(n) == [isString |-> FALSE, num |-> n, chars |-> <<>>]
StrAmount(cs) == [isString |-> TRUE, num |-> 0, chars |-> cs]

Digits == <<"0", "1", "2", "3", "4", "5", "6", "7", "8", "9">>
IsDigit(c) == \E i \in 1..10 : Digits[i] = c
DigitValue(c) == (CHOOSE i \in 1..10 : Digits[i] = c) - 1

RECURSIVE ParseDigits(_, _, _)
\* The longest run of decimal digits of cs from position i on, as a number.
ParseDigits(cs, i, acc) ==
    IF i > Len(cs) \/ ~IsDigit(cs[i]) THEN acc
    ELSE ParseDigits(cs, i + 1, acc * 10 + DigitValue(cs[i]))

\* parseFloat(x): x is converted to a string and its longest numeric prefix
\* (an optional sign, then digits) is read; a number prints as itself.
parseFloat(x) ==
    IF ~x.isString THEN x.num
    ELSE IF Len(x.chars) > 0 /\ x.chars[1] = "-" THEN 0 - ParseDigits(x.chars, 2, 0)
    ELSE IF Len(x.chars) > 0 /\ x.chars[1] = "+" THEN ParseDigits(x.chars, 2, 0)
    ELSE ParseDigits(x.chars, 1, 0)

\* A quotient of two numbers: NaN for 0/0, otherwise the fraction num/den.
NaN == [nan |-> TRUE, num |-> 0, den |-> 0]
Quotient(n, d) == [nan |-> FALSE, num |-> n, den |-> d]
Divide(n, d) == IF d = 0 /\ n = 0 THEN NaN ELSE Quotient(n, d)

\* ------------------------------------------------------------------ Date

MonthsPerYear == 12

\* Days from 1970-01-01 to the civil date y-m-d (proleptic Gregorian).
DaysFromCivil(y, m, d) ==
    LET yy  == IF m <= 2 THEN y - 1 ELSE y
        era == yy \div 400
        yoe == yy - era * 400
        mp  == IF m > 2 THEN m - 3 ELSE m + 9
        doy == (153 * mp + 2) \div 5 + d - 1
        doe == yoe * 365 + yoe \div 4 - yoe \div 100 + doy
    IN  era * 146097 + doe - 719468

\* The civil date of day number z (days from 1970-01-01).
CivilFromDays(z) ==
    LET zz  == z + 719468
        era == zz \div 146097
        doe == zz - era * 146097
        yoe == (doe - doe \div 1460 + doe \div 36524 - doe \div 146096) \div 365
        doy == doe - (365 * yoe + yoe \div 4 - yoe \div 100)
        mp  == (5 * doy + 2) \div 153
        d   == doy - (153 * mp + 2) \div 5 + 1
        m   == IF mp < 10 THEN mp + 3 ELSE mp - 9
        y   == yoe + era * 400 + (IF m <= 2 THEN 1 ELSE 0)
    IN  [y |-> y, m |-> m, d |-> d]

\* new Date("YYYY-MM-DD"): the time value of UTC midnight of that day.
NewDate(s) == DaysFromCivil(s.y, s.m, s.d) * 24

\* The local calendar date of time value t on a host at UTC offset tz.
LocalCivil(t) == CivilFromDays((t + tz) \div 24)

getFullYear(t) == LocalCivil(t).y
getMonth(t) == LocalCivil(t).m - 1          \* zero-based
getDate(t) == LocalCivil(t).d

\* ------------------------------------------------------------ the domain

DateStr(y, m, d) == [y |-> y, m |-> m, d |-> d]

Txn(id, date, amount, type, desc, merchant) ==
    [transaction_id |-> id, transaction_date |-> date,
     transaction_amount |-> amount, transaction_type |-> type,
     transaction_description |-> desc, merchant_name |-> merchant,
     card_type |-> "Visa"]

T1 == Txn(JSString("1"), DateStr(2019, 1, 1), StrAmount(<<"1", "0", "0">>),
          "debit", "groceries", "SuperMart")
T2 == Txn(JSString("2"), DateStr(2019, 2, 15), NumAmount(50),
          "credit", "refund", "OnlineShop")
T3 == Txn(JSString("1"), DateStr(2019, 2, 1), StrAmount(<<"-", "3", "0">>),
          "debit", "fuel", "SuperMart")
T4 == Txn(JSNumber("1"), DateStr(2018, 12, 31), NumAmount(7),
          "transfer", "groceries", "OnlineShop")
T5 == Txn(JSString("3"), DateStr(2019, 3, 1), NumAmount(50),
          "credit", "salary", "Employer")

TransactionUniverse == {T1, T2, T3, T4, T5}

\* UTC offsets of the hosts considered: New York (winter) and Chisinau.
TzOffsets == {-5, 2}

IdArgs == {JSString("1"), JSNumber("1"), JSString("9")}
TypeArgs == {"debit", "credit", "cash"}
MerchantArgs == {"SuperMart", "Nobody"}
DateArgs == {DateStr(2019, 1, 1), DateStr(2019, 2, 15)}
YearArgs == {Omitted, Given(0), Given(2019)}
MonthArgs == {Omitted, Given(1)}
DayArgs == {Omitted, Given(1)}
AmountArgs == {0, 50}

RECURSIVE SeqsUpTo(_, _)
\* All sequences over S of length at most n.
SeqsUpTo(S, n) ==
    IF n = 0 THEN {<<>>}
    ELSE LET shorter == SeqsUpTo(S, n - 1)
         IN  shorter \cup {Append(s, x) : s \in {q \in shorter : Len(q) = n - 1}, x \in S}

\* ------------------------------------------------------- array utilities

\* Array.prototype.unshift
PushFront(arr, x) == <<x>> \o arr
\* Array.prototype.push
Push(arr, x) == Append(arr, x)

RECURSIVE Find(_, _, _)
\* Array.prototype.find from index i: the first element satisfying P, or undefined.
Find(arr, P(_), i) ==
    IF i > Len(arr) THEN Undefined
    ELSE IF P(arr[i]) THEN arr[i]
    ELSE Find(arr, P, i + 1)

RECURSIVE Filter(_, _, _)
\* Array.prototype.filter from index i: a new array of the elements satisfying P.
Filter(arr, P(_), i) ==
    IF i > Len(arr) THEN <<>>
    ELSE IF P(arr[i]) THEN <<arr[i]>> \o Filter(arr, P, i + 1)
    ELSE Filter(arr, P, i + 1)

RECURSIVE Reduce(_, _, _, _)
\* Array.prototype.reduce with an initial value, from index i.
Reduce(arr, F(_, _), acc, i) ==
    IF i > Len(arr) THEN acc
    ELSE Reduce(arr, F, F(acc, arr[i]), i + 1)

\* Array.prototype.map
Map(arr, F(_)) == [i \in 1..Len(arr) |-> F(arr[i])]

RECURSIVE IndexOf(_, _, _)
\* Array.prototype.indexOf, zero-based; arr[i] of the model is element i-1.
IndexOf(arr, x, i) ==
    IF i > Len(arr) THEN -1
    ELSE IF arr[i] = x THEN i - 1
    ELSE IndexOf(arr, x, i + 1)

\* Math.max(...arr) of a non-empty array of numbers
MathMax(arr) == CHOOSE x \in {arr[i] : i \in 1..Len(arr)} :
                    \A j \in 1..Len(arr) : arr[j] <= x

\* Array.from(set) of a Set filled by forEach: distinct values, first-seen order.
RECURSIVE UniqueInOrder(_, _, _)
UniqueInOrder(arr, seen, i) ==
    IF i > Len(arr) THEN seen
    ELSE IF \E k \in 1..Len(seen) : seen[k] = arr[i]
         THEN UniqueInOrder(arr, seen, i + 1)
         ELSE UniqueInOrder(arr, Append(seen, arr[i]), i + 1)

\* ----------------------------------------------- TransactionAnalyzer methods
\* Each method is an operator over the stored array txs (this.transactions).

constructor(input) == input

\* Variant: unshift in place of push.
addTransaction_unshift(txs, transaction) == PushFront(txs, transaction)
addTransaction(txs, transaction) == Push(txs, transaction)

getAllTransactions(txs) == txs

getUniqueTransactionTypes(txs) ==
    UniqueInOrder(Map(txs, LAMBDA t : t.transaction_type), <<>>, 1)

\* Variant: the reduction started from 1 in place of 0.
calculateTotalAmount_from1(txs) ==
    Reduce(txs, LAMBDA total, t : total + parseFloat(t.transaction_amount), 1, 1)
calculateTotalAmount(txs) ==
    Reduce(txs, LAMBDA total, t : total + parseFloat(t.transaction_amount), 0, 1)

calculateTotalAmountByDate(txs, year, month, day) ==
    Reduce(txs,
           LAMBDA total, t :
               LET transactionDate == NewDate(t.transaction_date)
               IN  IF /\ (Not(year) \/ getFullYear(transactionDate) = year[1])
                      /\ (Not(month) \/ getMonth(transactionDate) + 1 = month[1])
                      /\ (Not(day) \/ getDate(transactionDate) = day[1])
                   THEN total + parseFloat(t.transaction_amount)
                   ELSE total,
           0, 1)

getTransactionsByType(txs, type) ==
    Filter(txs, LAMBDA t : t.transaction_type = type, 1)

\* Variant: > in place of >= at the start of the range.
getTransactionsInDateRange_exclusive(txs, startDate, endDate) ==
    LET start == NewDate(startDate)
        end   == NewDate(endDate)
    IN  Filter(txs,
               LAMBDA t : LET transactionDate == NewDate(t.transaction_date)
                          IN  transactionDate > start /\ transactionDate <= end,
               1)
getTransactionsInDateRange(txs, startDate, endDate) ==
    LET start == NewDate(startDate)
        end   == NewDate(endDate)
    IN  Filter(txs,
               LAMBDA t : LET transactionDate == NewDate(t.transaction_date)
                          IN  transactionDate >= start /\ transactionDate <= end,
               1)

getTransactionsByMerchant(txs, merchantName) ==
    Filter(txs, LAMBDA t : t.merchant_name = merchantName, 1)

\* Variant: an empty store answered with 0 in place of the division.
calculateAverageTransactionAmount_guarded(txs) ==
    IF Len(txs) = 0 THEN Quotient(0, 1)
    ELSE Divide(calculateTotalAmount(txs), Len(txs))
calculateAverageTransactionAmount(txs) ==
    LET totalAmount == calculateTotalAmount(txs)
    IN  Divide(totalAmount, Len(txs))

getTransactionsByAmountRange(txs, minAmount, maxAmount) ==
    Filter(txs,
           LAMBDA t : LET amount == parseFloat(t.transaction_amount)
                      IN  amount >= minAmount /\ amount <= maxAmount,
           1)

RECURSIVE CountMonths(_, _, _)
\* The forEach loop: months[month]++ for every transaction of arr, from index i.
\* months[k] of the model is the JS element months[k - 1].
CountMonths(arr, months, i) ==
    IF i > Len(arr) THEN months
    ELSE LET month == getMonth(NewDate(arr[i].transaction_date))
         IN  CountMonths(arr, [months EXCEPT ![month + 1] = @ + 1], i + 1)

ZeroMonths == [k \in 1..MonthsPerYear |-> 0]

\* Variant: the zero-based index returned without the + 1.
findMostTransactionsMonth_zeroBased(txs) ==
    LET months == CountMonths(txs, ZeroMonths, 1)
        maxTransactions == MathMax(months)
    IN  IndexOf(months, maxTransactions, 1)
findMostTransactionsMonth(txs) ==
    LET months == CountMonths(txs, ZeroMonths, 1)
        maxTransactions == MathMax(months)
    IN  IndexOf(months, maxTransactions, 1) + 1  \* months are zero-based

findMostDebitTransactionMonth(txs) ==
    LET debitTransactions == getTransactionsByType(txs, "debit")
        months == CountMonths(debitTransactions, ZeroMonths, 1)
        maxTransactions == MathMax(months)
    IN  IndexOf(months, maxTransactions, 1) + 1

\* Variant: >= in place of > in the first comparison.
mostTransactionTypes_geq(txs) ==
    LET debitCount  == Len(getTransactionsByType(txs, "debit"))
        creditCount == Len(getTransactionsByType(txs, "credit"))
    IN  IF debitCount >= creditCount THEN "debit"
        ELSE IF debitCount < creditCount THEN "credit"
        ELSE "equal"
mostTransactionTypes(txs) ==
    LET debitCount  == Len(getTransactionsByType(txs, "debit"))
        creditCount == Len(getTransactionsByType(txs, "credit"))
    IN  IF debitCount > creditCount THEN "debit"
        ELSE IF debitCount < creditCount THEN "credit"
        ELSE "equal"

getTransactionsBeforeDate(txs, date) ==
    LET d == NewDate(date)
    IN  Filter(txs, LAMBDA t : NewDate(t.transaction_date) < d, 1)

\* Variant: == in place of ===.
findTransactionById_loose(txs, id) ==
    Find(txs, LAMBDA t : LooseEquals(t.transaction_id, id), 1)
findTransactionById(txs, id) ==
    Find(txs, LAMBDA t : StrictEquals(t.transaction_id, id), 1)

mapTransactionDescriptions(txs) ==
    Map(txs, LAMBDA t : t.transaction_description)

\* The sum of amount over the transactions of type "debit" (the second draft's
\* total-debit query, which src/index.js does not hold).
calculateTotalDebitAmount(txs) ==
    calculateTotalAmount(getTransactionsByType(txs, "debit"))

\* ------------------------------------------------------------------ actions

Init ==
    /\ tz \in TzOffsets
    /\ initial \in SeqsUpTo(TransactionUniverse, MaxInitLen)
    /\ transactions = constructor(initial)
    /\ appended = <<>>
    /\ op = "constructor"
    /\ args = <<>>
    /\ result = Undefined

\* A call of a method that only reads: it returns r and leaves the store alone.
Returns(name, a, r) ==
    /\ op' = name
    /\ args' = a
    /\ result' = r
    /\ UNCHANGED <<transactions, tz, initial, appended>>

AddTransaction ==
    \E t \in TransactionUniverse :
        /\ Len(transactions) < MaxLen
        /\ transactions' = addTransaction(transactions, t)
        /\ appended' = Append(appended, t)
        /\ op' = "addTransaction"
        /\ args' = t
        /\ result' = Undefined
        /\ UNCHANGED <<tz, initial>>

GetAllTransactions ==
    Returns("getAllTransactions", <<>>, getAllTransactions(transactions))

GetUniqueTransactionTypes ==
    Returns("getUniqueTransactionTypes", <<>>, getUniqueTransactionTypes(transactions))

CalculateTotalAmount ==
    Returns("calculateTotalAmount", <<>>, calculateTotalAmount(transactions))

CalculateTotalAmountByDate ==
    \E year \in YearArgs, month \in MonthArgs, day \in DayArgs :
        Returns("calculateTotalAmountByDate", <<year, month, day>>,
                calculateTotalAmountByDate(transactions, year, month, day))

\* Variant: the filtered array assigned back to this.transactions.
GetTransactionsByType_inPlace ==
    \E type \in TypeArgs :
        /\ op' = "getTransactionsByType"
        /\ args' = <<type>>
        /\ transactions' = getTransactionsByType(transactions, type)
        /\ result' = transactions'
        /\ UNCHANGED <<tz, initial, appended>>
GetTransactionsByType ==
    \E type \in TypeArgs :
        Returns("getTransactionsByType", <<type>>,
                getTransactionsByType(transactions, type))

GetTransactionsInDateRange ==
    \E startDate \in DateArgs, endDate \in DateArgs :
        Returns("getTransactionsInDateRange", <<startDate, endDate>>,
                getTransactionsInDateRange(transactions, startDate, endDate))

GetTransactionsByMerchant ==
    \E merchantName \in MerchantArgs :
        Returns("getTransactionsByMerchant", <<merchantName>>,
                getTransactionsByMerchant(transactions, merchantName))

CalculateAverageTransactionAmount ==
    Returns("calculateAverageTransactionAmount", <<>>,
            calculateAverageTransactionAmount(transactions))

GetTransactionsByAmountRange ==
    \E minAmount \in AmountArgs, maxAmount \in AmountArgs :
        Returns("getTransactionsByAmountRange", <<minAmount, maxAmount>>,
                getTransactionsByAmountRange(transactions, minAmount, maxAmount))

CalculateTotalDebitAmount ==
    Returns("calculateTotalDebitAmount", <<>>, calculateTotalDebitAmount(transactions))

FindMostTransactionsMonth ==
    Returns("findMostTransactionsMonth", <<>>, findMostTransactionsMonth(transactions))

FindMostDebitTransactionMonth ==
    Returns("findMostDebitTransactionMonth", <<>>,
            findMostDebitTransactionMonth(transactions))

MostTransactionTypes ==
    Returns("mostTransactionTypes", <<>>, mostTransactionTypes(transactions))

GetTransactionsBeforeDate ==
    \E date \in DateArgs :
        Returns("getTransactionsBeforeDate", <<date>>,
                getTransactionsBeforeDate(transactions, date))

FindTransactionById ==
    \E id \in IdArgs :
        Returns("findTransactionById", <<id>>, findTransactionById(transactions, id))

MapTransactionDescriptions ==
    Returns("mapTransactionDescriptions", <<>>, mapTransactionDescriptions(transactions))

Next ==
    \/ AddTransaction
    \/ GetAllTransactions
    \/ GetUniqueTransactionTypes
    \/ CalculateTotalAmount
    \/ CalculateTotalAmountByDate
    \/ GetTransactionsByType
    \/ GetTransactionsInDateRange
    \/ GetTransactionsByMerchant
    \/ CalculateAverageTransactionAmount
    \/ GetTransactionsByAmountRange
    \/ CalculateTotalDebitAmount
    \/ FindMostTransactionsMonth
    \/ FindMostDebitTransactionMonth
    \/ MostTransactionTypes
    \/ GetTransactionsBeforeDate
    \/ FindTransactionById
    \/ MapTransactionDescriptions

Spec == Init /\ [][Next]_vars

\* ------------------------------------------------- reference definitions
\* What the specification's words denote, stated without the code's loops.

Min(S) == CHOOSE x \in S : \A y \in S : x <= y

\* The number a stored amount denotes: a string by its positional notation.
AmountValue(a) ==
    IF ~a.isString THEN a.num
    ELSE LET neg == a.chars[1] = "-"
             ds  == IF neg THEN Tail(a.chars) ELSE a.chars
             mag == LET W[i \in 0..Len(ds)] ==
                            IF i = 0 THEN 0
                            ELSE W[i - 1] + DigitValue(ds[i]) * 10 ^ (Len(ds) - i)
                    IN  W[Len(ds)]
         IN  IF neg THEN 0 - mag ELSE mag

\* The sum of the amounts of the transactions of txs at the positions in I.
RECURSIVE SumOver(_, _)
SumOver(txs, I) ==
    IF I = {} THEN 0
    ELSE LET i == CHOOSE k \in I : TRUE
         IN  AmountValue(txs[i].transaction_amount) + SumOver(txs, I \ {i})

SumAmounts(txs) == SumOver(txs, DOMAIN txs)

\* Calendar order of two dates, by year, then month, then day.
DateLeq(a, b) ==
    \/ a.y < b.y
    \/ a.y = b.y /\ a.m < b.m
    \/ a.y = b.y /\ a.m = b.m /\ a.d <= b.d

\* The number of transactions of txs dated in month m (1..12).
CountInMonth(txs, m) ==
    Cardinality({i \in DOMAIN txs : txs[i].transaction_date.m = m})

\* The lowest-numbered month holding the highest count of transactions of txs.
BusiestMonth(txs) ==
    Min({m \in 1..MonthsPerYear :
            \A k \in 1..MonthsPerYear : CountInMonth(txs, k) <= CountInMonth(txs, m)})

OfType(txs, type) == SelectSeq(txs, LAMBDA t : t.transaction_type = type)

\* Whether date matches every supplied component; <<>> is an omitted one.
MatchesDate(date, year, month, day) ==
    /\ (year = Omitted \/ date.y = year[1])
    /\ (month = Omitted \/ date.m = month[1])
    /\ (day = Omitted \/ date.d = day[1])

\* The transactions of txs with "debit" and "credit" exchanged.
SwapTypes(txs) ==
    [i \in DOMAIN txs |->
        [txs[i] EXCEPT !.transaction_type =
            IF @ = "debit" THEN "credit" ELSE IF @ = "credit" THEN "debit" ELSE @]]

SwapAnswer(r) == IF r = "debit" THEN "credit" ELSE IF r = "credit" THEN "debit" ELSE r

IsQuery == op \notin {"constructor", "addTransaction"}

\* ------------------------------------------------------------------ claims

C2_AppendOnly ==
    /\ [](transactions = initial \o appended)
    /\ [](op = "getAllTransactions" => result = initial \o appended)
    /\ [][/\ Len(transactions') >= Len(transactions)
          /\ SubSeq(transactions', 1, Len(transactions)) = transactions]_vars

\* C2 witness: getAllTransactions on a store built from a non-empty array and
\* an append.
C2_Witness ==
    /\ op = "getAllTransactions"
    /\ Len(initial) >= 1 /\ Len(appended) >= 1
    /\ initial[1] # appended[1]

\* C3: a call of any query leaves the stored array as it was, and the same
\* query called again at once returns the same value; only addTransaction
\* changes the store.
C3_QueriesPure ==
    [][/\ (op' # "addTransaction" => transactions' = transactions)
       /\ (transactions' # transactions => op' = "addTransaction")
       /\ ((IsQuery /\ op' = op /\ args' = args) => result' = result)]_vars

\* C3 witness: a filter that returned part of a store, which still holds all.
C3_Witness ==
    /\ op = "getTransactionsByType"
    /\ Len(result) = 1 /\ Len(transactions) = 2
    /\ transactions = initial \o appended

\* C4: findMostTransactionsMonth returns the lowest-numbered month with the
\* highest count of transactions, and findMostDebitTransactionMonth the same
\* over the transactions of type "debit"; both are in 1..12.
C4_BusiestMonth ==
    /\ (op = "findMostTransactionsMonth" =>
            result \in 1..MonthsPerYear /\ result = BusiestMonth(transactions))
    /\ (op = "findMostDebitTransactionMonth" =>
            result \in 1..MonthsPerYear
            /\ result = BusiestMonth(OfType(transactions, "debit")))

\* C4, the part the code keeps: on a host east of UTC (tz >= 0) the months are
\* those of the dates as written and the claim holds.
C4_BusiestMonthEastOfUTC == tz >= 0 => C4_BusiestMonth

\* C5: calculateTotalAmountByDate(year, month, day) is the sum of amount over
\* the transactions whose date matches every supplied component, an omitted
\* component matching always; with none supplied it is calculateTotalAmount().
C5_TotalByDate ==
    op = "calculateTotalAmountByDate" =>
        /\ result = SumOver(transactions,
                            {i \in DOMAIN transactions :
                                MatchesDate(transactions[i].transaction_date,
                                            args[1], args[2], args[3])})
        /\ (args = <<Omitted, Omitted, Omitted>>
                => result = calculateTotalAmount(transactions))

\* C5, the part the code keeps: east of UTC, with no component supplied as 0.
C5_TotalByDateEastOfUTC ==
    (tz >= 0 /\ op = "calculateTotalAmountByDate" /\ args[1] # Given(0))
        => C5_TotalByDate

\* C6: mostTransactionTypes compares the counts of "debit" and "credit"
\* transactions: "debit" when debits are more, "credit" when fewer, "equal"
\* when as many; other types do not count, and exchanging debit and credit
\* exchanges the answer.
C6_DominantType ==
    op = "mostTransactionTypes" =>
        LET debits  == Cardinality({i \in DOMAIN transactions :
                            transactions[i].transaction_type = "debit"})
            credits == Cardinality({i \in DOMAIN transactions :
                            transactions[i].transaction_type = "credit"})
        IN  /\ (debits > credits => result = "debit")
            /\ (debits < credits => result = "credit")
            /\ (debits = credits => result = "equal")
            /\ mostTransactionTypes(SwapTypes(transactions)) = SwapAnswer(result)
            /\ mostTransactionTypes(
                   SelectSeq(transactions,
                             LAMBDA t : t.transaction_type \in {"debit", "credit"}))
                 = result

\* C6 witness: credits outnumber debits in a store that also holds another type.
C6_Witness ==
    /\ op = "mostTransactionTypes"
    /\ result = "credit"
    /\ \E i \in DOMAIN transactions :
           transactions[i].transaction_type \notin {"debit", "credit"}

\* C7: getTransactionsInDateRange(a, b) returns, in insertion order, exactly
\* the transactions dated from a to b inclusive: those dated a when a = b, and
\* none when a is after b.
C7_DateRange ==
    op = "getTransactionsInDateRange" =>
        LET a == args[1]
            b == args[2]
        IN  /\ result = SelectSeq(transactions,
                                  LAMBDA t : /\ DateLeq(a, t.transaction_date)
                                             /\ DateLeq(t.transaction_date, b))
            /\ (a = b => \A i \in DOMAIN result : result[i].transaction_date = a)
            /\ (~DateLeq(a, b) => result = <<>>)

\* C7 witness: a one-day range that picks the transaction of that day out of two.
C7_Witness ==
    /\ op = "getTransactionsInDateRange"
    /\ args[1] = args[2]
    /\ Len(transactions) = 2 /\ Len(result) = 1
    /\ result[1].transaction_date = args[1]

\* C8: on an empty store the sequence queries return the empty sequence, the
\* totals return 0, and the busiest-month and dominant-type queries return a
\* month in 1..12 and one of their three answers.
C8_EmptyStore ==
    transactions = <<>> =>
        /\ (op \in {"getAllTransactions", "getUniqueTransactionTypes",
                    "getTransactionsByType", "getTransactionsInDateRange",
                    "getTransactionsByMerchant", "getTransactionsByAmountRange",
                    "getTransactionsBeforeDate", "mapTransactionDescriptions"}
                => result = <<>>)
        /\ (op \in {"calculateTotalAmount", "calculateTotalAmountByDate",
                    "calculateTotalDebitAmount"}
                => result = 0)
        /\ (op \in {"findMostTransactionsMonth", "findMostDebitTransactionMonth"}
                => result \in 1..MonthsPerYear)
        /\ (op = "mostTransactionTypes" => result \in {"debit", "credit", "equal"})

\* C8 witness: the busiest month asked of an empty store.
C8_Witness ==
    /\ transactions = <<>>
    /\ op = "findMostTransactionsMonth"
    /\ result = 1

\* C9: calculateTotalAmount is the sum of amount over the stored transactions,
\* 0 for the empty store, and addTransaction(t) changes it by t's amount.
C9_TotalAmount ==
    /\ [](op = "calculateTotalAmount" =>
            /\ result = SumAmounts(transactions)
            /\ (transactions = <<>> => result = 0))
    /\ [][op' = "addTransaction" =>
            calculateTotalAmount(transactions')
                = calculateTotalAmount(transactions)
                    + AmountValue(args'.transaction_amount)]_vars

\* C9 witness: the total of a string amount and an appended negative one.
C9_Witness ==
    /\ op = "calculateTotalAmount"
    /\ Len(appended) >= 1
    /\ transactions = <<T1, T3>>
    /\ result = 70

\* C10: calculateAverageTransactionAmount is calculateTotalAmount() divided by
\* the number of stored transactions, and NaN (0 / 0) on an empty store.
C10_Average ==
    op = "calculateAverageTransactionAmount" =>
        IF transactions = <<>> THEN result = NaN
        ELSE /\ ~result.nan
             /\ result.num = calculateTotalAmount(transactions)
             /\ result.den = Len(transactions)

\* C10 witness: the average of an empty store.
C10_Witness ==
    /\ op = "calculateAverageTransactionAmount"
    /\ transactions = <<>>
    /\ result.nan

====
